---- MODULE Spec2Model ----
(***************************************************************************)
(* A model of trytravis (src/trytravis.py): the config store               *)
(* (_input_github_repo, _input_travis_token, _load_github_repo,            *)
(* _load_travis_token), the repo transport                                 *)
(* (_submit_changes_to_github_repo), the build locator                     *)
(* (_wait_for_travis_build), the build watcher (_watch_travis_build,       *)
(* _travis_job_state) and the dispatcher (_main, main).                    *)
(*                                                                         *)
(* Python strings that the code inspects (URLs, the confirmation answer,   *)
(* repository names) are sequences of one-character strings, so that the   *)
(* regular expressions, strip(), lower() and `in` are computed and not     *)
(* assumed.  Option values (None or a value) are sequences of length 0     *)
(* or 1.  Leading underscores of the source's names are dropped.           *)
(***************************************************************************)
EXTENDS Integers, Sequences, FiniteSets

VARIABLES
    entry,        \* the function the run entered through
    pc,           \* position of the single thread of control
    argv,         \* sys.argv[1:]
    stdin,        \* the lines the user will type at the prompts
    travisEnv,    \* 'TRAVIS' in os.environ
    cfgRepo,      \* content of <config_dir>/repo, None when the file is absent
    cfgToken,     \* content of <config_dir>/token, None when the file is absent
    repoExists,   \* git.Repo(path) can open the working directory
    history,      \* the commits reachable from HEAD, oldest first (HEAD last)
    worktree,     \* "clean", "unstaged" or "staged" local changes, or
                  \* "index_reset": the index is HEAD^'s, the files HEAD's
    remote,       \* the URL of the remote named `trytravis`, None when absent
    pushed,       \* the SHA last force-pushed to the remote, None when none
    url,          \* the url argument of submit and locate
    commited,     \* submit's local flag (spelled as in the source)
    answer,       \* what `git commit` answered in submit, None before it
    commit,       \* the SHA submit returns and locate looks for
    committed_at, \* the timestamp submit returns and locate compares with
    exc,          \* the exception in flight, None when none
    elapsed,      \* time.time() - start_time in locate
    repo_id,      \* locate's repo_id of the current iteration
    build_id,     \* locate's build_id, then watch's argument
    build,        \* the build whose id locate assigned to build_id
    stale,        \* the builds, of the answer locate took its build from,
                  \* that have the SHA asked for and an older commit
    shaped,       \* that answer was shaped as the API's answers are
    running,      \* watch's loop flag
    seen,         \* the jobs of the answer watch's current turn got
    polls,        \* number of polls watch has made
    interrupted,  \* a KeyboardInterrupt ended watch
    out,          \* what was printed, progress messages left out
    exitCode,     \* the process's exit status, None while running
    runtime,      \* the platform and the Python that run the program
    ops,          \* the repository and network operations performed so far
    pre           \* the repository and config as they were at entry

vars == <<entry, pc, argv, stdin, travisEnv, cfgRepo, cfgToken, repoExists,
          history, worktree, remote, pushed, url, commited, answer, commit,
          committed_at, exc, elapsed, repo_id, build_id, build, stale, shaped,
          running, seen,
          polls, interrupted, out, exitCode, runtime, ops, pre>>

fixed == <<entry, argv, travisEnv, repoExists, runtime, pre>>
ioState      == <<stdin, out, exitCode>>
cfgState     == <<cfgRepo, cfgToken>>
gitState     == <<history, worktree, remote, pushed>>
submitLocals == <<commited, answer, commit, committed_at>>
locateLocals == <<elapsed, repo_id, build_id, build, stale, shaped>>
watchLocals  == <<running, seen, polls, interrupted>>

----------------------------------------------------------------------------
(* Bounds of the model. *)

\* Longest list of builds one poll of the builds endpoint returns.
MaxBuilds == 2
\* Longest list of jobs one poll of the jobs endpoint returns.
MaxJobs == 2
\* Polls after which the model stops following watch (watch has no timeout).
MaxPolls == 3
\* Longest list of builds, and of jobs, an answer holds in a run of main;
\* the calls of locate and of watch on their own take the longer lists.
MaxMainBuilds == 1
MaxMainJobs == 1

(* Constants of the program. *)

\* `while time.time() - start_time < 60`
TIMEOUT == 60
\* `time.sleep(3.0)` in locate
SLEEP == 3

----------------------------------------------------------------------------
(* Option values and strings. *)

None == <<>>
Some(x) == <<x>>
Val(o) == o[1]

Drop(s, n) == SubSeq(s, n + 1, Len(s))

StartsWith(s, p) == Len(s) >= Len(p) /\ SubSeq(s, 1, Len(p)) = p

\* Python's `sub in s`
Contains(s, sub) ==
    \E i \in 1..(Len(s) - Len(sub) + 1) : SubSeq(s, i, i + Len(sub) - 1) = sub

\* The characters str.strip() removes, as far as they lie in Latin-1: space,
\* \t, \n, \r, \f, \v, the separators \x1c to \x1f, \x85 and \xa0.  (Python
\* also removes the Unicode spaces above U+00FF.)
WhiteSpace == {" ", "\t", "\n", "\r", "\f", "",
               "", "", "", "", "", " "}

IsSpace(c) == c \in WhiteSpace

RECURSIVE LStrip(_)
LStrip(s) == IF s # <<>> /\ IsSpace(Head(s)) THEN LStrip(Tail(s)) ELSE s

RECURSIVE RStrip(_)
RStrip(s) ==
    IF s # <<>> /\ IsSpace(s[Len(s)]) THEN RStrip(SubSeq(s, 1, Len(s) - 1))
    ELSE s

\* str.strip()
Strip(s) == RStrip(LStrip(s))

\* The cased characters of Latin-1 and what str.lower() makes of each (the
\* cased characters above U+00FF are left out; none of them lowers into
\* `y`, `e` or `s`).
UpperCase ==
    <<"A","B","C","D","E","F","G","H","I","J","K","L","M","N","O","P",
      "Q","R","S","T","U","V","W","X","Y","Z","À","Á","Â","Ã","Ä","Å",
      "Æ","Ç","È","É","Ê","Ë","Ì","Í","Î","Ï","Ð","Ñ","Ò","Ó","Ô","Õ",
      "Ö","Ø","Ù","Ú","Û","Ü","Ý","Þ">>

LowerCase ==
    <<"a","b","c","d","e","f","g","h","i","j","k","l","m","n","o","p",
      "q","r","s","t","u","v","w","x","y","z","à","á","â","ã","ä","å",
      "æ","ç","è","é","ê","ë","ì","í","î","ï","ð","ñ","ò","ó","ô","õ",
      "ö","ø","ù","ú","û","ü","ý","þ">>

LowerChar(c) ==
    IF \E i \in DOMAIN UpperCase : UpperCase[i] = c
    THEN LowerCase[CHOOSE i \in DOMAIN UpperCase : UpperCase[i] = c]
    ELSE c

\* str.lower()
Lower(s) == [i \in 1..Len(s) |-> LowerChar(s[i])]

S_https     == <<"h","t","t","p","s",":","/","/">>
S_http      == <<"h","t","t","p",":","/","/">>
S_ssh       == <<"s","s","h",":","/","/","g","i","t","@">>
S_www       == <<"w","w","w",".">>
S_github    == <<"g","i","t","h","u","b",".","c","o","m","/">>
S_gitlab    == <<"g","i","t","l","a","b",".","c","o","m","/">>
S_trytravis == <<"t","r","y","t","r","a","v","i","s">>
S_y         == <<"y">>
S_yes       == <<"y","e","s">>

----------------------------------------------------------------------------
(* The two URL shapes. *)

NoMatch == <<>>

\* `/([^/]+)/([^/]+)$` applied to what follows `github.com/`: the groups
\* (owner, name), or NoMatch.  `[^/]+` is greedy and takes a newline too, so
\* `$` is met at the very end.
TwoSegments(rest) ==
    LET slashes == {i \in 1..Len(rest) : rest[i] = "/"}
    IN  IF Cardinality(slashes) = 1
        THEN LET i == CHOOSE j \in slashes : TRUE
             IN  IF i > 1 /\ i < Len(rest)
                 THEN <<SubSeq(rest, 1, i - 1), Drop(rest, i)>>
                 ELSE NoMatch
        ELSE NoMatch

\* _HTTPS_REGEX.match(u)
HTTPS_REGEX(u) ==
    IF ~StartsWith(u, S_https) THEN NoMatch
    ELSE LET a == Drop(u, Len(S_https))
             b == IF StartsWith(a, S_www \o S_github) THEN Drop(a, Len(S_www))
                  ELSE a
         IN  IF StartsWith(b, S_github) THEN TwoSegments(Drop(b, Len(S_github)))
             ELSE NoMatch

\* _SSH_REGEX.match(u)
SSH_REGEX(u) ==
    IF StartsWith(u, S_ssh \o S_github)
    THEN TwoSegments(Drop(u, Len(S_ssh \o S_github)))
    ELSE NoMatch

Err(type, cause) == Some([type |-> type, cause |-> cause])

\* The confirmation test of _input_github_repo.
Accepted(accept) == Lower(accept) \in {S_y, S_yes}

\* The name group must hold the safety substring.
NameIsSafe(name) == Contains(name, S_trytravis)

\* Mutant: the safety substring is looked for in the whole URL.
input_github_repo_ChecksUrl(u0, accept) ==
    LET u == Strip(u0)
    IN  IF HTTPS_REGEX(u) = NoMatch /\ SSH_REGEX(u) = NoMatch
        THEN [raise |-> Err("RuntimeError", "bad_url"), write |-> None,
              asked |-> FALSE]
        ELSE IF ~NameIsSafe(u)
        THEN [raise |-> Err("RuntimeError", "no_safety"), write |-> None,
              asked |-> FALSE]
        ELSE IF ~Accepted(accept)
        THEN [raise |-> Err("RuntimeError", "aborted"), write |-> None,
              asked |-> TRUE]
        ELSE [raise |-> None, write |-> Some(u), asked |-> TRUE]

\* _input_github_repo on the URL given or typed and the answer to its second
\* prompt: the error it raises, the value it writes to the repo file, and
\* whether the second prompt was reached.
input_github_repo(u0, accept) ==
    LET u          == Strip(u0)
        http_match == HTTPS_REGEX(u)
        ssh_match  == SSH_REGEX(u)
    IN  IF http_match = NoMatch /\ ssh_match = NoMatch
        THEN [raise |-> Err("RuntimeError", "bad_url"), write |-> None,
              asked |-> FALSE]
        ELSE LET name == IF http_match # NoMatch THEN http_match[2]
                         ELSE ssh_match[2]
             IN  IF ~NameIsSafe(name)
                 THEN [raise |-> Err("RuntimeError", "no_safety"),
                       write |-> None, asked |-> FALSE]
                 ELSE IF ~Accepted(accept)
                 THEN [raise |-> Err("RuntimeError", "aborted"),
                       write |-> None, asked |-> TRUE]
                 ELSE [raise |-> None, write |-> Some(u), asked |-> TRUE]

\* _slug_from_url: the slug, or NoMatch when it raises.
slug_from_url(u) ==
    LET http_match == HTTPS_REGEX(u)
        ssh_match  == SSH_REGEX(u)
    IN  IF http_match = NoMatch /\ ssh_match = NoMatch THEN NoMatch
        ELSE IF http_match # NoMatch
        THEN http_match[1] \o <<"/">> \o http_match[2]
        ELSE ssh_match[1] \o <<"/">> \o ssh_match[2]

----------------------------------------------------------------------------
(* The config store's loaders. *)

\* Mutant: the file is read before the CI marker is tested.
load_github_repo_FileFirst(inCI, file) ==
    IF file = None THEN Err("RuntimeError", "no_repo_configured")
    ELSE IF inCI THEN Err("RuntimeError", "running_in_ci")
    ELSE None

\* _load_github_repo: the error it raises (None when it returns the file's
\* content).  The CI marker is tested before the file is opened.
load_github_repo(inCI, file) ==
    IF inCI THEN Err("RuntimeError", "running_in_ci")
    ELSE IF file = None THEN Err("RuntimeError", "no_repo_configured")
    ELSE None

\* _load_travis_token, likewise.  _travis_headers calls it for every request.
load_travis_token(inCI, file) ==
    IF inCI THEN Err("RuntimeError", "running_in_ci")
    ELSE IF file = None THEN Err("RuntimeError", "no_token_configured")
    ELSE None

----------------------------------------------------------------------------
(* The repository. *)

\* A datetime in UTC: <<year, month, day, hour, minute, second>>.
At(sec) == <<2020, 1, 1, 0, 0, sec>>

\* A commit: its SHA and its committed_datetime.
Commit1 == [sha |-> "s1", at |-> At(3)]
Commit2 == [sha |-> "s2", at |-> At(4)]
\* The commit `git commit -m trytravis-<now>` creates.
TmpCommit == [sha |-> "tmp", at |-> At(9)]

\* The phrase submit looks for in the text of a failed commit.
S_nothing_to_commit ==
    <<"n","o","t","h","i","n","g"," ","t","o"," ","c","o","m","m","i","t">>

\* What git says when nothing is staged, in a repository with commits and
\* in one without.
MsgClean ==
    <<"n","o","t","h","i","n","g"," ","t","o"," ","c","o","m","m","i","t",
      ","," ","w","o","r","k","i","n","g"," ","t","r","e","e"," ","c","l",
      "e","a","n">>

MsgInitial ==
    <<"n","o","t","h","i","n","g"," ","t","o"," ","c","o","m","m","i","t",
      " ","(","c","r","e","a","t","e","/","c","o","p","y"," ","f","i","l",
      "e","s"," ","a","n","d"," ","u","s","e"," ","\"","g","i","t"," ","a",
      "d","d","\""," ","t","o"," ","t","r","a","c","k",")">>

\* What git says when changes are left and none is staged: of tracked
\* files, and of files it does not track.
MsgNoChanges ==
    <<"n","o"," ","c","h","a","n","g","e","s"," ","a","d","d","e","d"," ",
      "t","o"," ","c","o","m","m","i","t"," ","(","u","s","e"," ","\"","g",
      "i","t"," ","a","d","d","\""," ","a","n","d","/","o","r"," ","\"","g",
      "i","t"," ","c","o","m","m","i","t"," ","-","a","\"",")">>

MsgUntracked ==
    <<"n","o","t","h","i","n","g"," ","a","d","d","e","d"," ","t","o"," ",
      "c","o","m","m","i","t"," ","b","u","t"," ","u","n","t","r","a","c",
      "k","e","d"," ","f","i","l","e","s"," ","p","r","e","s","e","n","t",
      " ","(","u","s","e"," ","\"","g","i","t"," ","a","d","d","\""," ","t",
      "o"," ","t","r","a","c","k",")">>

\* Two failures that have nothing to do with an empty index: no committer
\* identity, and a pre-commit hook that rejects the commit.  git copies what
\* the hook prints into the failure's text, so that text is free.
MsgNoIdentity ==
    <<"f","a","t","a","l",":"," ","u","n","a","b","l","e"," ","t","o"," ",
      "a","u","t","o","-","d","e","t","e","c","t"," ","e","m","a","i","l",
      " ","a","d","d","r","e","s","s">>

MsgHook ==
    <<"l","i","n","t",":"," ","n","o","t","h","i","n","g"," ","t","o"," ",
      "c","o","m","m","i","t"," ","u","n","t","i","l"," ","t","h","e"," ",
      "s","t","y","l","e"," ","e","r","r","o","r","s"," ","a","r","e"," ",
      "f","i","x","e","d">>

\* git dies once the commit is made (a post-commit hook that kills it): what
\* the hook printed is the failure's text.
MsgKilled == <<"K","i","l","l","e","d">>

\* What can go wrong in `git commit`, None when nothing does: the text of
\* the failure, and whether it strikes after the commit has been made.
CommitFailures ==
    {None,
     Some([msg |-> MsgNoIdentity, late |-> FALSE]),
     Some([msg |-> MsgHook,       late |-> FALSE]),
     Some([msg |-> MsgKilled,     late |-> TRUE]),
     Some([msg |-> MsgHook,       late |-> TRUE])}

\* repo.git.commit(m=...): whether it raises GitCommandError, str(e), and
\* whether the commit was made.  An early failure comes first; otherwise
\* the commit is made when something is staged, and a late failure raises
\* after that.  With nothing staged the commit is refused: with 'nothing to
\* commit' when the tree is clean, with 'no changes added to commit' when
\* changes are left that `git add` did not stage (in a repository without
\* commits no file is tracked, and git names the untracked files).
GitCommit(h, tree, failure) ==
    IF failure # None /\ ~Val(failure).late
    THEN [raise |-> TRUE, made |-> FALSE, msg |-> Val(failure).msg]
    ELSE IF tree = "clean"
    THEN [raise |-> TRUE, made |-> FALSE,
          msg |-> IF h = <<>> THEN MsgInitial ELSE MsgClean]
    ELSE IF tree = "unstaged"
    THEN [raise |-> TRUE, made |-> FALSE,
          msg |-> IF h = <<>> THEN MsgUntracked ELSE MsgNoChanges]
    ELSE IF failure = None
    THEN [raise |-> FALSE, made |-> TRUE, msg |-> <<>>]
    ELSE [raise |-> TRUE, made |-> TRUE, msg |-> Val(failure).msg]

\* `'nothing to commit' in str(e)`
NothingToCommit(msg) == Contains(msg, S_nothing_to_commit)

\* `git reset HEAD^` can succeed only when HEAD has a parent.
CanResetToParent(h) == Len(h) >= 2

Front(h) == SubSeq(h, 1, Len(h) - 1)

----------------------------------------------------------------------------
(* The build locator's scan of one poll. *)

\* A build of the builds endpoint: its id and its commit's id, sha and
\* committed_at.  committed_at is text, kept as the API wrote it: the code
\* sorts the builds by the text and compares the time it parses from it.
\* A commit without a date has committed_at null (None).

\* The printable ASCII characters in code point order, but for the
\* backquote, which no string of this module can hold.
Ascii ==
    <<" ","!","\"","#","$","%","&","'","(",")","*","+",",","-",".","/",
      "0","1","2","3","4","5","6","7","8","9",":",";","<","=",">","?",
      "@","A","B","C","D","E","F","G","H","I","J","K","L","M","N","O",
      "P","Q","R","S","T","U","V","W","X","Y","Z","[","\\","]","^","_",
      "a","b","c","d","e","f","g","h","i","j","k","l","m","n","o","p",
      "q","r","s","t","u","v","w","x","y","z","{","|","}","~">>

\* The place of c in that order: ord(c) < ord(d) exactly when
\* Ord(c) < Ord(d).
Ord(c) == CHOOSE i \in 1..Len(Ascii) : Ascii[i] = c

\* a < b for two str that agree before index i: by code point, a proper
\* prefix first.
RECURSIVE TextLessFrom(_, _, _)
TextLessFrom(a, b, i) ==
    IF i > Len(b) THEN FALSE
    ELSE IF i > Len(a) THEN TRUE
    ELSE IF a[i] = b[i] THEN TextLessFrom(a, b, i + 1)
    ELSE Ord(a[i]) < Ord(b[i])

\* a < b for two str.
TextLess(a, b) == TextLessFrom(a, b, 1)

Digits == <<"0","1","2","3","4","5","6","7","8","9">>
IsDigit(c) == \E i \in 1..Len(Digits) : Digits[i] = c
DigitVal(c) == (CHOOSE i \in 1..Len(Digits) : Digits[i] = c) - 1
OneDigit(f) == Len(f) = 1 /\ IsDigit(f[1])
TwoDigits(f) == Len(f) = 2 /\ IsDigit(f[1]) /\ IsDigit(f[2])

\* int(f) for a field of one or two characters; a leading blank counts for
\* nothing.
Num(f) ==
    IF Len(f) = 1 THEN DigitVal(f[1])
    ELSE IF f[1] = " " THEN DigitVal(f[2])
    ELSE 10 * DigitVal(f[1]) + DigitVal(f[2])

\* The patterns strptime has for the directives of the format:
\* %Y \d\d\d\d, %m 1[0-2]|0[1-9]|[1-9], %d 3[0-1]|[1-2]\d|0[1-9]|[1-9]| [1-9],
\* %H 2[0-3]|[0-1]\d|\d, %M [0-5]\d|\d, %S 6[0-1]|[0-5]\d|\d.
Match_Y(f) == Len(f) = 4 /\ \A i \in 1..4 : IsDigit(f[i])
Match_m(f) == \/ TwoDigits(f) /\ Num(f) \in 1..12
              \/ OneDigit(f) /\ Num(f) \in 1..9
Match_d(f) == \/ TwoDigits(f) /\ Num(f) \in 1..31
              \/ OneDigit(f) /\ Num(f) \in 1..9
              \/ Len(f) = 2 /\ f[1] = " " /\ IsDigit(f[2]) /\ f[2] # "0"
Match_H(f) == \/ TwoDigits(f) /\ Num(f) \in 0..23
              \/ OneDigit(f)
Match_M(f) == \/ TwoDigits(f) /\ Num(f) \in 0..59
              \/ OneDigit(f)
Match_S(f) == \/ TwoDigits(f) /\ Num(f) \in 0..61
              \/ OneDigit(f)

Year(f) == 1000 * DigitVal(f[1]) + 100 * DigitVal(f[2])
           + 10 * DigitVal(f[3]) + DigitVal(f[4])

IsLeap(y) == y % 4 = 0 /\ (y % 100 # 0 \/ y % 400 = 0)

DaysIn(y, m) ==
    IF m = 2 THEN (IF IsLeap(y) THEN 29 ELSE 28)
    ELSE IF m \in {4, 6, 9, 11} THEN 30
    ELSE 31

\* The first index at or after i of a character of seps, an index past the
\* end when there is none.
RECURSIVE Find(_, _, _)
Find(s, i, seps) ==
    IF i > Len(s) THEN i
    ELSE IF s[i] \in seps THEN i
    ELSE Find(s, i + 1, seps)

\* datetime.strptime(s, '%Y-%m-%dT%H:%M:%SZ'): the datetime, None when it
\* raises ValueError.  The literal characters of the format end the fields
\* (letters in either case, the pattern is matched ignoring case), nothing
\* may follow the Z, and datetime refuses year 0, a day the month does not
\* have and the seconds 60 and 61 that the pattern lets through.
strptime(s) ==
    LET i1 == Find(s, 6, {"-"})
        i2 == Find(s, i1 + 1, {"T", "t"})
        i3 == Find(s, i2 + 1, {":"})
        i4 == Find(s, i3 + 1, {":"})
        i5 == Find(s, i4 + 1, {"Z", "z"})
        fY == SubSeq(s, 1, 4)
        fm == SubSeq(s, 6, i1 - 1)
        fd == SubSeq(s, i1 + 1, i2 - 1)
        fH == SubSeq(s, i2 + 1, i3 - 1)
        fM == SubSeq(s, i3 + 1, i4 - 1)
        fS == SubSeq(s, i4 + 1, i5 - 1)
    IN  IF /\ Len(s) >= 5
           /\ i5 = Len(s)
           /\ s[5] = "-"
           /\ Match_Y(fY) /\ Match_m(fm) /\ Match_d(fd)
           /\ Match_H(fH) /\ Match_M(fM) /\ Match_S(fS)
           /\ Year(fY) >= 1
           /\ Num(fd) <= DaysIn(Year(fY), Num(fm))
           /\ Num(fS) <= 59
        THEN Some(<<Year(fY), Num(fm), Num(fd), Num(fH), Num(fM), Num(fS)>>)
        ELSE None

\* a < b for two datetimes of one time zone.
RECURSIVE Before(_, _)
Before(a, b) ==
    IF a = <<>> THEN FALSE
    ELSE IF Head(a) = Head(b) THEN Before(Tail(a), Tail(b))
    ELSE Head(a) < Head(b)

\* sorted() compares the keys and strptime() parses each: a null
\* committed_at in the list ends either with TypeError; with none, every
\* build is parsed, and a text that is not of the format ends with
\* ValueError.
BuildsError(builds) ==
    IF \E i \in 1..Len(builds) : builds[i].at = None
    THEN Err("TypeError", "committed_at")
    ELSE IF \E i \in 1..Len(builds) : strptime(Val(builds[i].at)) = None
    THEN Err("ValueError", "committed_at")
    ELSE None

RECURSIVE InsertByAt(_, _)
InsertByAt(x, s) ==
    IF s = <<>> THEN <<x>>
    ELSE IF TextLess(Val(x.at), Val(Head(s).at)) THEN <<x>> \o s
    ELSE <<Head(s)>> \o InsertByAt(x, Tail(s))

\* sorted(json['builds'], key=committed_at): by the text, stable.
RECURSIVE SortedByAt(_)
SortedByAt(s) ==
    IF s = <<>> THEN <<>>
    ELSE InsertByAt(s[Len(s)], SortedByAt(Front(s)))

\* Mutant: the first loop has no `continue`, no commit is too old.
Stale_Never(at, T) == FALSE

\* `if travis_committed_at < committed_at: continue`
Stale(at, T) == Before(at, T)

\* The first loop: commit id -> sha over the builds that are not stale, a
\* later build (in sorted order) overwriting an earlier one.
CommitToSha(builds, T) ==
    LET kept == SelectSeq(SortedByAt(builds),
                          LAMBDA b : ~Stale(Val(strptime(Val(b.at))), T))
        last(c) == CHOOSE i \in 1..Len(kept) :
                       /\ kept[i].cid = c
                       /\ \A j \in (i + 1)..Len(kept) : kept[j].cid # c
    IN  [c \in {kept[i].cid : i \in 1..Len(kept)} |-> kept[last(c)].sha]

\* `build['commit']['id'] in commit_to_sha and commit_to_sha[...] == commit`
Selected(b, map, sha) == b.cid \in DOMAIN map /\ map[b.cid] = sha

\* The second loop: the build whose id is build_id after it, None when no
\* build was selected.  The loop does not break, so the last selected build
\* wins.
ScanBuilds(builds, sha, T) ==
    LET map  == CommitToSha(builds, T)
        hits == {i \in 1..Len(builds) : Selected(builds[i], map, sha)}
    IN  IF hits = {} THEN None
        ELSE Some(builds[CHOOSE i \in hits : \A j \in hits : j <= i])

\* _get_repo_info on the decoded answer: the id of the first repository
\* whose name holds 'trytravis' (None, the function's implicit return, when
\* there is none), or the TypeError of `'trytravis' in None` when a
\* repository with a null name comes before it.
get_repo_info(repos) ==
    LET stops == {i \in 1..Len(repos) :
                     \/ repos[i].name = None
                     \/ Contains(Val(repos[i].name), S_trytravis)}
    IN  IF stops = {} THEN [raise |-> None, id |-> None]
        ELSE LET i == CHOOSE k \in stops : \A j \in stops : k <= j
             IN  IF repos[i].name = None
                 THEN [raise |-> Err("TypeError", "name"), id |-> None]
                 ELSE [raise |-> None, id |-> Some(repos[i].id)]

----------------------------------------------------------------------------
(* The answers of the Travis API. *)

\* What requests.get meets: no connection (it raises), or a response with
\* a status and a body.  The body is JSON of the endpoint's shape, JSON
\* without the endpoint's top-level key, or no JSON at all.
Bodies == {"json", "no_key", "not_json"}
Responses ==
    {r \in [reached : BOOLEAN, ok : BOOLEAN, body : Bodies] :
        ~r.reached => (~r.ok /\ r.body = "not_json")}

\* requests.get(...) itself
RequestError(r) ==
    IF ~r.reached THEN Err("ConnectionError", "unreachable") ELSE None

\* r.json()[key]
JsonError(r, key) ==
    IF r.body = "not_json" THEN Err("JSONDecodeError", "not_json")
    ELSE IF r.body = "no_key" THEN Err("KeyError", key)
    ELSE None

\* A request of locate: requests.get, `if not r.ok: raise RuntimeError`,
\* then r.json()[key].
CheckedError(r, key) ==
    IF RequestError(r) # None THEN RequestError(r)
    ELSE IF ~r.ok THEN Err("RuntimeError", "api_not_ok")
    ELSE JsonError(r, key)

\* The request of watch: requests.get, then r.json()['jobs']; r.ok is not
\* looked at.
UncheckedError(r, key) ==
    IF RequestError(r) # None THEN RequestError(r) ELSE JsonError(r, key)

----------------------------------------------------------------------------
(* The build watcher's classification. *)

\* Mutant: a state the function does not know counts as still running.
travis_job_state_UnknownRuns(state) ==
    IF state \in {Some("passed"), Some("failed"), Some("errored"),
                  Some("canceled")}
    THEN [raise |-> FALSE, mark |-> "X", is_running |-> FALSE]
    ELSE [raise |-> FALSE, mark |-> "*", is_running |-> TRUE]

\* _travis_job_state: [raise, mark, is_running]; the color is left out.
travis_job_state(state) ==
    IF state \in {None, Some("queued"), Some("created"), Some("received")}
    THEN [raise |-> FALSE, mark |-> "*", is_running |-> TRUE]
    ELSE IF state \in {Some("started"), Some("running")}
    THEN [raise |-> FALSE, mark |-> "*", is_running |-> TRUE]
    ELSE IF state = Some("passed")
    THEN [raise |-> FALSE, mark |-> "P", is_running |-> FALSE]
    ELSE IF state = Some("failed")
    THEN [raise |-> FALSE, mark |-> "X", is_running |-> FALSE]
    ELSE IF state = Some("errored")
    THEN [raise |-> FALSE, mark |-> "!", is_running |-> FALSE]
    ELSE IF state = Some("canceled")
    THEN [raise |-> FALSE, mark |-> "X", is_running |-> FALSE]
    ELSE [raise |-> TRUE, mark |-> "?", is_running |-> FALSE]

\* What stops the for loop at job j, None when nothing does: the error of
\* _travis_job_state(job['state']), or else the KeyError of
\* job['config']['os'] for a job whose config has no `os`.
JobError(j) ==
    IF travis_job_state(j.state).raise THEN Err("RuntimeError", "unknown_state")
    ELSE IF ~j.has_os THEN Err("KeyError", "os")
    ELSE None

\* The jobs the loop gets to: all of them, or those up to the first that
\* raises.
Visited(js) ==
    LET bad == {i \in 1..Len(js) : JobError(js[i]) # None}
    IN  IF bad = {} THEN Len(js)
        ELSE CHOOSE i \in bad : \A k \in bad : i <= k

\* Mutant: `running = is_running`, so that the last job decides.
ScanJobs_LastJobDecides(js) ==
    LET n == Visited(js)
    IN  [raise   |-> IF n = 0 THEN None ELSE JobError(js[n]),
         running |-> n > 0 /\ travis_job_state(js[n].state).is_running]

\* The for loop of one poll: the error that ends it (None when it runs to
\* its end), and `running` as the loop leaves it.
ScanJobs(js) ==
    LET n == Visited(js)
    IN  [raise   |-> IF n = 0 THEN None ELSE JobError(js[n]),
         running |-> \E i \in 1..n : travis_job_state(js[i].state).is_running]

----------------------------------------------------------------------------
(* The dispatcher's reading of argv. *)

HelpFlags    == {"-h", "--help", "-H"}
VersionFlags == {"-v", "--version", "-V"}
RepoFlags    == {"-r", "--repo", "-R"}
TokenFlags   == {"-t", "--token", "-T"}
NoWaitFlags  == {"--no-wait", "-nw"}

\* _main: how often the usage text is printed and what is done next.
main_plan(av) ==
    LET repo_input_argv  == Len(av) = 2 /\ av[1] \in RepoFlags
        token_input_argv == Len(av) = 2 /\ av[1] \in TokenFlags
        condition_1 == Len(av) > 1 /\ ~token_input_argv
        condition_2 == Len(av) > 1 /\ ~repo_input_argv
        first == IF condition_1 /\ condition_2 THEN <<"usage">> ELSE <<>>
    IN  IF Len(av) = 1 \/ repo_input_argv \/ token_input_argv
        THEN CASE av[1] \in HelpFlags    -> [print |-> first \o <<"usage">>,
                                             do |-> "nothing"]
               [] av[1] \in VersionFlags -> [print |-> first, do |-> "version"]
               [] av[1] \in RepoFlags    -> [print |-> first, do |-> "repo"]
               [] av[1] \in TokenFlags   -> [print |-> first, do |-> "token"]
               [] av[1] \in NoWaitFlags  -> [print |-> first, do |-> "submit"]
               [] OTHER                  -> [print |-> first \o <<"usage">>,
                                             do |-> "nothing"]
        ELSE IF Len(av) = 0 THEN [print |-> first, do |-> "submit"]
        ELSE [print |-> first, do |-> "nothing"]

S_38 == <<"3",".","8">>
S_39 == <<"3",".","9">>

\* _version_string: the error it raises, None when it returns the text.  On
\* Linux it calls platform.dist() unless sys.version[:5] holds '3.8' or
\* '3.9'; a Python without platform.dist answers AttributeError.
version_string(rt) ==
    IF /\ rt.system = "Linux"
       /\ ~(Contains(rt.py, S_38) \/ Contains(rt.py, S_39))
       /\ ~rt.has_dist
    THEN Err("AttributeError", "platform_dist")
    ELSE None

\* `_watch_travis_build(build_id)` follows only in the branch without arguments.
main_watches(av) == Len(av) = 0

----------------------------------------------------------------------------
(* The inputs the model draws from. *)

Leads   == {<<>>, <<" ", "\f">>}
Schemes == {S_https, S_http, S_ssh}
Wwws    == {<<>>, S_www}
Hosts   == {S_github, S_gitlab}
Owners  == {<<"a","l">>, S_trytravis}
SafeNames   == {S_trytravis \o <<"-","x">>, <<"m","y">> \o S_trytravis}
UnsafeNames == {<<"t","r","y","-","t","r","a","v","i","s">>,
                <<"T","r","y","t","r","a","v","i","s">>, <<"x">>}
BrokenNames == {<<>>, <<"a","/">> \o S_trytravis}
Names   == SafeNames \cup UnsafeNames \cup BrokenNames
Trails  == {<<>>, <<"/">>, <<"\r", "\n">>}

UrlParts == [lead : Leads, scheme : Schemes, www : Wwws, host : Hosts,
             owner : Owners, name : Names, trail : Trails]

\* The text the parts spell.
UrlOf(p) == p.lead \o p.scheme \o p.www \o p.host \o p.owner \o <<"/">>
                \o p.name \o p.trail

Accepts == {S_y, S_yes, <<"Y">>, <<"Y","e","S">>, <<"n">>, <<>>, <<"y"," ">>,
            <<"Y","E","A","H">>}

U_good  == S_https \o S_github \o <<"a","l","/">> \o S_trytravis
U_ssh   == S_ssh \o S_github \o <<"a","l","/">> \o S_trytravis
U_bad   == S_https \o S_github \o <<"a","l","/","x">>
U_old   == S_https \o S_github \o <<"a","l","/","o">> \o S_trytravis
U_edited == U_good \o <<"\n">>
Tok     == <<"t","k">>

Histories == {<<>>, <<Commit1>>, <<Commit1, Commit2>>}
Worktrees == {"clean", "unstaged", "staged"}

\* committed_at texts, as the API writes them.
S_date   == <<"2","0","2","0","-","0","1","-","0","1","T","0","0",":",
              "0","0",":">>
Text_03  == S_date \o <<"0","3","Z">>
Text_09  == S_date \o <<"0","9","Z">>
Text_10  == S_date \o <<"1","0","Z">>

BuildRecs  ==
    [id : {1, 2}, cid : {1, 2}, sha : {"s2", "tmp"},
     at : {Some(Text_03), Some(Text_09), Some(Text_10), None}]

BuildLists == UNION {[1..n -> BuildRecs] : n \in 0..MaxBuilds}
\* The lists of builds the run that entered through `e` may be answered.
BuildListsOf(e) ==
    IF e = "main" THEN {b \in BuildLists : Len(b) <= MaxMainBuilds}
    ELSE BuildLists

\* An answer as the builds endpoint writes it: every build has an id of its
\* own, and the builds of one commit carry that commit's one sha and
\* committed_at.  The code takes any list.
ApiShaped(builds) ==
    \A i, j \in 1..Len(builds) :
        /\ builds[i].id = builds[j].id => i = j
        /\ builds[i].cid = builds[j].cid =>
              /\ builds[i].sha = builds[j].sha
              /\ builds[i].at = builds[j].at

\* The builds of an answer that have the SHA asked for and a commit from
\* before T.
StaleBuilds(builds, sha, T) ==
    {builds[i] : i \in {k \in 1..Len(builds) :
                            /\ builds[k].sha = sha
                            /\ Before(Val(strptime(Val(builds[k].at))), T)}}

\* The two loops over one answer: the error they end with, or the build
\* they select and the stale builds that were in the answer.
PollOf(builds, sha, T) ==
    IF BuildsError(builds) # None
    THEN [raise |-> BuildsError(builds), found |-> None, stale |-> {}]
    ELSE [raise |-> None, found |-> ScanBuilds(builds, sha, T),
          stale |-> StaleBuilds(builds, sha, T)]

\* What a poll can end with, for the commits and timestamps of the runs and
\* the answers a run may be given (main tells a run of main from a call of
\* the function): the answers of one kind (shaped as the API's or not) that
\* end alike are one entry.
Polls ==
    {[main |-> q[1], sha |-> q[3], T |-> q[4], shaped |-> ApiShaped(q[2]),
      res |-> PollOf(q[2], q[3], q[4])] :
        q \in {r \in BOOLEAN \X BuildLists
                               \X {Commit2.sha, TmpCommit.sha}
                               \X {Commit2.at, TmpCommit.at} :
                   r[2] \in BuildListsOf(IF r[1] THEN "main" ELSE "locate")}}

RepoLists ==
    {<<>>,
     <<[id |-> 10, name |-> Some(S_trytravis)]>>,
     <<[id |-> 11, name |-> Some(<<"x">>)]>>,
     <<[id |-> 11, name |-> Some(<<"x">>)],
       [id |-> 10, name |-> Some(S_trytravis)],
       [id |-> 12, name |-> Some(<<"m","y">> \o S_trytravis)]>>,
     <<[id |-> 13, name |-> None], [id |-> 10, name |-> Some(S_trytravis)]>>}

\* The job states an answer may hold: null, the ten names the Travis API
\* documents, and two it does not.
JobStates == {None, Some("queued"), Some("created"), Some("received"),
              Some("started"), Some("running"), Some("passed"),
              Some("failed"), Some("errored"), Some("canceled"),
              Some("booting"), Some("PASSED")}
\* A job of the jobs endpoint: its state, and whether its config has `os`.
JobRecs ==
    [state : JobStates, has_os : {TRUE}]
    \cup [state : {Some("passed"), Some("queued"), Some("booting")},
          has_os : {FALSE}]
JobLists  == UNION {[1..n -> JobRecs] : n \in 0..MaxJobs}
\* The lists of jobs the run that entered through `e` may be answered.
JobListsOf(e) ==
    IF e = "main" THEN {j \in JobLists : Len(j) <= MaxMainJobs}
    ELSE JobLists

\* Seconds one request may take.
Latencies == {0, 3}

\* Where the program runs: platform.system(), sys.version[:5], and whether
\* this Python still has platform.dist (it was removed in 3.8).
Runtimes ==
    {[system |-> "Linux",  py |-> <<"3",".","7",".","9">>, has_dist |-> TRUE],
     [system |-> "Linux",  py |-> <<"3",".","8",".","1">>, has_dist |-> FALSE],
     [system |-> "Linux",  py |-> <<"3",".","1","1",".">>, has_dist |-> FALSE],
     [system |-> "Darwin", py |-> <<"3",".","1","1",".">>, has_dist |-> FALSE]}

DefaultRuntime ==
    [system |-> "Linux", py |-> <<"3",".","1","1",".">>, has_dist |-> FALSE]

\* argv and the lines typed, for the runs of main.
MainInputs ==
    {<<av, <<>>>> : av \in {<<>>, <<"--no-wait">>, <<"-nw">>, <<"-h">>,
                            <<"--version">>, <<"-V">>, <<"bogus">>, <<"-h", "x">>,
                            <<"a", "b", "c">>, <<"--token", Tok>>}}
    \cup {<<<<"--repo", u>>, <<a>>>> : u \in {U_good, U_bad},
                                       a \in {S_y, <<"n">>}}
    \cup {<<<<"-r">>, <<U_ssh, S_yes>>>>, <<<<"-t">>, <<Tok>>>>}

Snapshot(h, w, r, cr, ct, parts, accept) ==
    [history |-> h, worktree |-> w, remote |-> r, cfgRepo |-> cr,
     cfgToken |-> ct, parts |-> parts, accept |-> accept]

----------------------------------------------------------------------------
(* The initial states: a run of main, or a call of one of the functions. *)

\* What no entry has touched yet.
Fresh ==
    /\ commited = FALSE
    /\ answer = None
    /\ exc = None
    /\ elapsed = 0
    /\ repo_id = None
    /\ build = None
    /\ stale = {}
    /\ shaped = TRUE
    /\ running = FALSE
    /\ seen = {}
    /\ polls = 0
    /\ interrupted = FALSE
    /\ out = <<>>
    /\ exitCode = None
    /\ ops = {}
    /\ pushed = None

InitMain ==
    /\ entry = "main"
    /\ pc = "main"
    /\ \E inp \in MainInputs : argv = inp[1] /\ stdin = inp[2]
    /\ runtime \in Runtimes
    /\ main_plan(argv).do # "version" => runtime = DefaultRuntime
    /\ travisEnv \in BOOLEAN
    /\ cfgRepo \in {None, Some(U_good), Some(U_edited)}
    /\ cfgToken \in {None, Some(Tok)}
    /\ repoExists \in BOOLEAN
    /\ history = <<Commit1, Commit2>>
    /\ worktree \in {"clean", "unstaged"}
    /\ remote = None
    /\ url = None
    /\ commit = None
    /\ committed_at = None
    /\ build_id = None
    /\ Fresh
    /\ pre = Snapshot(history, worktree, remote, cfgRepo, cfgToken, None,
                      None)

InitSubmit ==
    /\ entry = "submit"
    /\ pc = "s_open"
    /\ argv = <<>>
    /\ runtime = DefaultRuntime
    /\ stdin = <<>>
    /\ travisEnv = FALSE
    /\ cfgRepo = Some(U_good)
    /\ cfgToken = Some(Tok)
    /\ repoExists \in BOOLEAN
    /\ history \in Histories
    /\ worktree \in Worktrees
    /\ remote \in {None, Some(U_old)}
    /\ url = Some(U_good)
    /\ commit = None
    /\ committed_at = None
    /\ build_id = None
    /\ Fresh
    /\ pre = Snapshot(history, worktree, remote, cfgRepo, cfgToken, None,
                      None)

InitLocate ==
    /\ entry = "locate"
    /\ pc = "l_start"
    /\ argv = <<>>
    /\ runtime = DefaultRuntime
    /\ stdin = <<>>
    /\ travisEnv \in BOOLEAN
    /\ cfgRepo = Some(U_good)
    /\ cfgToken \in {None, Some(Tok)}
    /\ repoExists = TRUE
    /\ history = <<Commit1, Commit2>>
    /\ worktree = "clean"
    /\ remote = None
    /\ url \in {Some(U_ssh), Some(U_edited)}
    /\ commit \in {Some("s2"), Some("tmp")}
    /\ committed_at \in {Some(Commit2.at), Some(TmpCommit.at)}
    /\ build_id = None
    /\ Fresh
    /\ pre = Snapshot(history, worktree, remote, cfgRepo, cfgToken, None,
                      None)

InitWatch ==
    /\ entry = "watch"
    /\ pc = "w_start"
    /\ argv = <<>>
    /\ runtime = DefaultRuntime
    /\ stdin = <<>>
    /\ travisEnv \in BOOLEAN
    /\ cfgRepo = Some(U_good)
    /\ cfgToken \in {None, Some(Tok)}
    /\ repoExists = TRUE
    /\ history = <<Commit1, Commit2>>
    /\ worktree = "clean"
    /\ remote = None
    /\ url = None
    /\ commit = None
    /\ committed_at = None
    /\ build_id = Some(1)
    /\ Fresh
    /\ pre = Snapshot(history, worktree, remote, cfgRepo, cfgToken, None,
                      None)

\* _input_github_repo(url) with the URL given, or typed at the prompt.
InitSaveRepo ==
    /\ entry = "saveRepo"
    /\ pc = "c_repo"
    /\ argv = <<>>
    /\ runtime = DefaultRuntime
    /\ travisEnv = FALSE
    /\ cfgRepo \in {None, Some(U_old)}
    /\ cfgToken = None
    /\ repoExists = TRUE
    /\ history = <<Commit1, Commit2>>
    /\ worktree = "clean"
    /\ remote = None
    /\ commit = None
    /\ committed_at = None
    /\ build_id = None
    /\ Fresh
    /\ \E p \in UrlParts, a \in Accepts, typed \in BOOLEAN :
          /\ typed => p.lead = <<>> /\ p.www = <<>> /\ p.owner = <<"a","l">>
          /\ url = IF typed THEN None ELSE Some(UrlOf(p))
          /\ stdin = IF typed THEN <<UrlOf(p), a>> ELSE <<a>>
          /\ pre = Snapshot(history, worktree, remote, cfgRepo, cfgToken,
                            Some(p), Some(a))

Init == InitMain \/ InitSubmit \/ InitLocate \/ InitWatch \/ InitSaveRepo

----------------------------------------------------------------------------
(* The config store. *)

\* _input_github_repo(url)
InputGithubRepo ==
    /\ pc = "c_repo"
    /\ LET typed == url = None
           u0    == IF typed THEN stdin[1] ELSE Val(url)
           rest  == IF typed THEN Tail(stdin) ELSE stdin
           res   == input_github_repo(u0, rest[1])
       IN  /\ stdin' = IF res.asked THEN Tail(rest) ELSE rest
           /\ IF res.raise # None
              THEN /\ exc' = res.raise
                   /\ pc' = "raised"
                   /\ UNCHANGED <<cfgRepo, out>>
              ELSE /\ cfgRepo' = res.write
                   /\ out' = Append(out, "repo_saved")
                   /\ pc' = "c_ret"
                   /\ exc' = exc
    /\ UNCHANGED <<fixed, cfgToken, gitState, submitLocals, locateLocals,
                   watchLocals, url, exitCode, ops>>

\* _input_travis_token(token)
InputTravisToken ==
    /\ pc = "c_token"
    /\ LET typed == Len(argv) # 2
           token == IF typed THEN stdin[1] ELSE argv[2]
       IN  /\ stdin' = IF typed THEN Tail(stdin) ELSE stdin
           /\ cfgToken' = Some(token)
    /\ out' = Append(out, "token_saved")
    /\ pc' = "c_ret"
    /\ UNCHANGED <<fixed, cfgRepo, gitState, submitLocals, locateLocals,
                   watchLocals, url, exc, exitCode, ops>>

\* url = _load_github_repo()
LoadGithubRepo ==
    /\ pc = "load_repo"
    /\ LET e == load_github_repo(travisEnv, cfgRepo)
       IN  IF e # None
           THEN exc' = e /\ pc' = "raised" /\ url' = url
           ELSE exc' = exc /\ pc' = "load_token" /\ url' = cfgRepo
    /\ UNCHANGED <<fixed, ioState, cfgState, gitState, submitLocals,
                   locateLocals, watchLocals, ops>>

\* token = _load_travis_token()
LoadTravisToken ==
    /\ pc = "load_token"
    /\ LET e == load_travis_token(travisEnv, cfgToken)
       IN  IF e # None
           THEN exc' = e /\ pc' = "raised"
           ELSE exc' = exc /\ pc' = "s_open"
    /\ UNCHANGED <<fixed, ioState, cfgState, gitState, submitLocals,
                   locateLocals, watchLocals, url, ops>>

----------------------------------------------------------------------------
(* The repo transport: _submit_changes_to_github_repo(path, url). *)

submitFrame == <<fixed, ioState, cfgState, locateLocals, watchLocals, url>>

\* repo = git.Repo(path); commited = False
SubmitOpen ==
    /\ pc = "s_open"
    /\ IF ~repoExists
       THEN /\ exc' = Err("RuntimeError", "repo_not_found")
            /\ pc' = "raised"
            /\ ops' = ops
       ELSE /\ exc' = exc
            /\ pc' = "s_delete_old"
            /\ ops' = ops \cup {"open"}
    /\ commited' = FALSE
    /\ UNCHANGED <<submitFrame, gitState, answer, commit, committed_at>>

\* try: repo.delete_remote('trytravis') except Exception: pass
\* The removal fails when there is no such remote or when git cannot write
\* the config; either way the failure is swallowed and the remote is as it
\* was.
SubmitDeleteOld ==
    /\ pc = "s_delete_old"
    /\ \E fails \in BOOLEAN : remote' = IF fails THEN remote ELSE None
    /\ ops' = ops \cup {"delete_remote"}
    /\ pc' = "s_create"
    /\ UNCHANGED <<submitFrame, history, worktree, pushed, submitLocals, exc>>

\* remote = repo.create_remote('trytravis', url): fails when a remote of
\* that name is still there, and may fail otherwise.
SubmitCreateRemote ==
    /\ pc = "s_create"
    /\ ops' = ops \cup {"create_remote"}
    /\ \E fails \in BOOLEAN :
          /\ remote # None => fails
          /\ IF fails
             THEN /\ exc' = Err("GitCommandError", "create_remote")
                  /\ pc' = "s_finally"
                  /\ remote' = remote
             ELSE /\ exc' = exc
                  /\ pc' = "s_add"
                  /\ remote' = url
    /\ UNCHANGED <<submitFrame, history, worktree, pushed, submitLocals>>

\* How `git add --all` can end: the changes are staged; git fails; git
\* succeeds and stages nothing, the changes being inside a submodule (which
\* takes a repository with a commit that holds the submodule).
AddOutcomes == {"staged", "fails", "nothing"}

\* repo.git.add('--all')
SubmitAdd ==
    /\ pc = "s_add"
    /\ ops' = ops \cup {"add"}
    /\ \E how \in AddOutcomes :
          /\ how = "nothing" => (worktree = "unstaged" /\ history # <<>>)
          /\ IF how = "fails"
             THEN /\ exc' = Err("GitCommandError", "add")
                  /\ pc' = "s_finally"
                  /\ worktree' = worktree
             ELSE /\ exc' = exc
                  /\ pc' = "s_commit"
                  /\ worktree' = IF worktree = "unstaged" /\ how = "staged"
                                 THEN "staged"
                                 ELSE worktree
    /\ UNCHANGED <<submitFrame, history, remote, pushed, submitLocals>>

\* repo.git.commit(m=...) and the handler of its GitCommandError
SubmitCommit ==
    /\ pc = "s_commit"
    /\ ops' = ops \cup {"commit"}
    /\ \E failure \in CommitFailures :
          LET said == GitCommit(history, worktree, failure)
          IN  /\ answer' = Some(said)
              /\ history' = IF said.made THEN Append(history, TmpCommit)
                             ELSE history
              /\ worktree' = IF said.made THEN "clean" ELSE worktree
              /\ IF ~said.raise
                 THEN /\ commited' = TRUE
                      /\ exc' = exc
                      /\ pc' = "s_head"
                 ELSE IF NothingToCommit(said.msg)
                 THEN /\ commited' = FALSE
                      /\ exc' = exc
                      /\ pc' = "s_head"
                 ELSE /\ exc' = Err("GitCommandError", "commit")
                      /\ pc' = "s_finally"
                      /\ commited' = commited
    /\ UNCHANGED <<submitFrame, remote, pushed, commit, committed_at>>

\* commit = repo.head.commit.hexsha; committed_at = ...committed_datetime
SubmitHead ==
    /\ pc = "s_head"
    /\ IF history = <<>>
       THEN /\ exc' = Err("ValueError", "no_head_commit")
            /\ pc' = "s_finally"
            /\ UNCHANGED <<commit, committed_at>>
       ELSE /\ commit' = Some(history[Len(history)].sha)
            /\ committed_at' = Some(history[Len(history)].at)
            /\ exc' = exc
            /\ pc' = "s_push"
    /\ UNCHANGED <<submitFrame, gitState, commited, answer, ops>>

\* How a push can end: the remote took the commit; git could not reach or
\* was refused by the remote and printed no result line (GitPython raises
\* GitCommandError); the remote took the commit and the connection broke
\* before git heard of it (no result line either, GitPython raises); the
\* remote rejected the ref and said so in a result line (GitPython returns
\* the result and raises nothing).
PushOutcomes == {"pushed", "raises", "lost", "rejected"}

\* remote.push(force=True)
SubmitPush ==
    /\ pc = "s_push"
    /\ ops' = ops \cup {"push"}
    /\ \E how \in PushOutcomes :
          /\ exc' = IF how \in {"raises", "lost"}
                    THEN Err("GitCommandError", "push")
                    ELSE exc
          /\ pushed' = IF how \in {"pushed", "lost"} THEN commit ELSE pushed
    /\ pc' = "s_finally"
    /\ UNCHANGED <<submitFrame, history, worktree, remote, submitLocals>>

\* How `git reset HEAD^` can end: HEAD is moved; git fails before it
\* touched anything; git has reset the index and fails at the update of
\* HEAD; git dies once it has moved HEAD (a reference-transaction hook that
\* kills it).
ResetOutcomes == {"reset", "fails", "half", "lost"}

\* finally: if commited: repo.git.reset('HEAD^').  An exception raised here
\* replaces the one in flight and skips the rest of the finally block.
SubmitRevert ==
    /\ pc = "s_finally"
    /\ IF commited
       THEN /\ ops' = ops \cup {"reset"}
            /\ \E how \in ResetOutcomes :
                  /\ ~CanResetToParent(history) => how = "fails"
                  /\ IF how = "fails"
                     THEN UNCHANGED <<history, worktree>>
                     ELSE IF how = "half"
                     THEN /\ history' = history
                          /\ worktree' = "index_reset"
                     ELSE /\ history' = Front(history)
                          /\ worktree' = "unstaged"
                  /\ IF how = "reset"
                     THEN exc' = exc /\ pc' = "s_delete"
                     ELSE /\ exc' = Err("GitCommandError", "reset")
                          /\ pc' = "raised"
       ELSE /\ pc' = "s_delete"
            /\ UNCHANGED <<ops, history, worktree, exc>>
    /\ UNCHANGED <<submitFrame, remote, pushed, submitLocals>>

\* finally: try: repo.delete_remote('trytravis') except Exception: pass;
\* then return commit, committed_at or let the exception on.  A removal
\* that fails is swallowed and leaves the remote.
SubmitDeleteRemote ==
    /\ pc = "s_delete"
    /\ \E fails \in BOOLEAN : remote' = IF fails THEN remote ELSE None
    /\ ops' = ops \cup {"delete_remote"}
    /\ pc' = IF exc # None THEN "raised" ELSE "s_ret"
    /\ UNCHANGED <<submitFrame, history, worktree, pushed, submitLocals, exc>>

----------------------------------------------------------------------------
(* The build locator: _wait_for_travis_build(url, commit, committed_at). *)

locateFrame == <<fixed, ioState, cfgState, gitState, submitLocals,
                 watchLocals, url>>

\* slug = _slug_from_url(url); start_time = time.time(); build_id = None
LocateStart ==
    /\ pc = "l_start"
    /\ IF slug_from_url(Val(url)) = NoMatch
       THEN exc' = Err("RuntimeError", "bad_slug") /\ pc' = "raised"
       ELSE exc' = exc /\ pc' = "l_loop"
    /\ elapsed' = 0
    /\ build_id' = None
    /\ UNCHANGED <<locateFrame, repo_id, build, stale, shaped, ops>>

\* Mutant: the while loop has no else branch, and `return build_id` follows.
LocateTimeout_Returns ==
    /\ pc = "l_loop"
    /\ ~(elapsed < TIMEOUT)
    /\ pc' = "l_ret"
    /\ UNCHANGED <<locateFrame, locateLocals, exc, ops>>

\* `while time.time() - start_time < 60` is false: the else branch raises
LocateTimeout ==
    /\ pc = "l_loop"
    /\ ~(elapsed < TIMEOUT)
    /\ exc' = Err("RuntimeError", "build_timeout")
    /\ pc' = "raised"
    /\ UNCHANGED <<locateFrame, locateLocals, ops>>

\* repo_id = _get_repo_info()
LocateRepoInfo ==
    /\ pc = "l_loop"
    /\ elapsed < TIMEOUT
    /\ LET e == load_travis_token(travisEnv, cfgToken)
       IN  IF e # None
           THEN exc' = e /\ pc' = "raised" /\ UNCHANGED <<repo_id, ops>>
           ELSE /\ ops' = ops \cup {"http"}
                /\ \E r \in Responses :
                      IF CheckedError(r, "repositories") # None
                      THEN /\ exc' = CheckedError(r, "repositories")
                           /\ pc' = "raised"
                           /\ repo_id' = repo_id
                      ELSE \E repos \in RepoLists :
                             LET info == get_repo_info(repos)
                             IN  IF info.raise # None
                                 THEN /\ exc' = info.raise
                                      /\ pc' = "raised"
                                      /\ repo_id' = repo_id
                                 ELSE /\ exc' = exc
                                      /\ pc' = "l_builds"
                                      /\ repo_id' = info.id
    /\ UNCHANGED <<locateFrame, elapsed, build_id, build, stale, shaped>>

\* requests.get('.../repo/%s/builds') and the two loops over the builds,
\* up to the break or the call of time.sleep(3.0)
LocateBuilds ==
    /\ pc = "l_builds"
    /\ LET e == load_travis_token(travisEnv, cfgToken)
       IN  IF e # None
           THEN /\ exc' = e
                /\ pc' = "raised"
                /\ UNCHANGED <<elapsed, build_id, build, stale, shaped, ops>>
           ELSE /\ ops' = ops \cup {"http"}
                /\ \E r \in Responses :
                      IF CheckedError(r, "builds") # None
                      THEN /\ exc' = CheckedError(r, "builds")
                           /\ pc' = "raised"
                           /\ UNCHANGED <<elapsed, build_id, build, stale,
                                          shaped>>
                      ELSE \E p \in Polls :
                             /\ p.main = (entry = "main")
                             /\ p.sha = Val(commit)
                             /\ p.T = Val(committed_at)
                             /\ LET res   == p.res
                                    found == res.found
                                IN
                                 IF res.raise # None
                                 THEN /\ exc' = res.raise
                                      /\ pc' = "raised"
                                      /\ UNCHANGED <<elapsed, build_id, build,
                                                     stale, shaped>>
                                 ELSE IF found # None
                                 THEN /\ build' = found
                                      /\ stale' = res.stale
                                      /\ shaped' = p.shaped
                                      /\ exc' = exc
                                      /\ build_id' = Some(Val(found).id)
                                      /\ pc' = "l_ret"
                                      /\ elapsed' = elapsed
                                 ELSE /\ build' = None
                                      /\ stale' = {}
                                      /\ shaped' = TRUE
                                      /\ exc' = exc
                                      /\ build_id' = None
                                      /\ pc' = "l_sleep"
                                      /\ \E d \in Latencies :
                                            elapsed' = elapsed + d
    /\ UNCHANGED <<locateFrame, repo_id>>

\* time.sleep(3.0), then the loop's test again
LocateSleep ==
    /\ pc = "l_sleep"
    /\ elapsed' = elapsed + SLEEP
    /\ pc' = "l_loop"
    /\ UNCHANGED <<locateFrame, repo_id, build_id, build, stale, shaped, exc,
                   ops>>

\* A KeyboardInterrupt during one of the two requests or during the sleep:
\* nothing in locate catches it.
LocateInterrupt ==
    /\ \/ pc = "l_loop" /\ elapsed < TIMEOUT
       \/ pc \in {"l_builds", "l_sleep"}
    /\ exc' = Err("KeyboardInterrupt", "KeyboardInterrupt")
    /\ pc' = "raised"
    /\ UNCHANGED <<locateFrame, locateLocals, ops>>

----------------------------------------------------------------------------
(* The build watcher: _watch_travis_build(build_id). *)

watchFrame == <<fixed, ioState, cfgState, gitState, submitLocals,
                locateLocals, url>>

\* build_size = None; running = True
WatchStart ==
    /\ pc = "w_start"
    /\ running' = TRUE
    /\ seen' = {}
    /\ polls' = 0
    /\ interrupted' = FALSE
    /\ pc' = "w_loop"
    /\ UNCHANGED <<watchFrame, exc, ops>>

\* One turn of `while running`, up to the sleep: the request and the loop
\* over the jobs.
WatchPoll ==
    /\ pc = "w_loop"
    /\ running
    /\ polls < MaxPolls
    /\ LET e == load_travis_token(travisEnv, cfgToken)
       IN  IF e # None
           THEN /\ exc' = e
                /\ pc' = "raised"
                /\ UNCHANGED <<running, seen, polls, ops>>
           ELSE /\ ops' = ops \cup {"http"}
                /\ \E r \in Responses :
                      IF UncheckedError(r, "jobs") # None
                      THEN /\ exc' = UncheckedError(r, "jobs")
                           /\ pc' = "raised"
                           /\ UNCHANGED <<running, seen, polls>>
                      ELSE \E js \in JobListsOf(entry) :
                             LET res == ScanJobs(js)
                             IN  /\ seen' = {js[i] : i \in 1..Len(js)}
                                 /\ polls' = polls + 1
                                 /\ running' = res.running
                                 /\ IF res.raise # None
                                    THEN exc' = res.raise /\ pc' = "raised"
                                    ELSE exc' = exc /\ pc' = "w_sleep"
    /\ interrupted' = interrupted
    /\ UNCHANGED watchFrame

\* time.sleep(3.0), then the test of `while running`.  A new turn has no
\* answer yet.
WatchSleep ==
    /\ pc = "w_sleep"
    /\ pc' = IF running THEN "w_loop" ELSE "w_ret"
    /\ seen' = IF running THEN {} ELSE seen
    /\ UNCHANGED <<watchFrame, running, polls, interrupted, exc, ops>>

\* except KeyboardInterrupt: pass.  The interrupt can arrive during the
\* request and during the sleep, which both lie inside the try.
WatchInterrupt ==
    /\ pc \in {"w_loop", "w_sleep"}
    /\ interrupted' = TRUE
    /\ pc' = "w_ret"
    /\ UNCHANGED <<watchFrame, running, seen, polls, exc, ops>>

----------------------------------------------------------------------------
(* The dispatcher: _main(argv) and main(argv). *)

\* _main up to the call its branch makes; print(_version_string()) is made
\* here.
MainDispatch ==
    /\ pc = "main"
    /\ LET plan == main_plan(argv)
           e    == IF plan.do = "version" THEN version_string(runtime)
                   ELSE None
       IN  /\ out' = IF plan.do = "version" /\ e = None
                     THEN out \o plan.print \o <<"version">>
                     ELSE out \o plan.print
           /\ exc' = IF e # None THEN e ELSE exc
           /\ pc' = CASE e # None           -> "raised"
                      [] plan.do = "repo"   -> "c_repo"
                      [] plan.do = "token"  -> "c_token"
                      [] plan.do = "submit" -> "load_repo"
                      [] OTHER              -> "m_done"
           /\ url' = IF plan.do = "repo" /\ Len(argv) = 2 THEN Some(argv[2])
                     ELSE None
    /\ UNCHANGED <<fixed, stdin, exitCode, cfgState, gitState, submitLocals,
                   locateLocals, watchLocals, ops>>

\* build_id = _wait_for_travis_build(url, commit, committed).  submit's
\* other locals are gone.
MainAfterSubmit ==
    /\ entry = "main"
    /\ pc = "s_ret"
    /\ pc' = "l_start"
    /\ commited' = FALSE
    /\ answer' = None
    /\ UNCHANGED <<fixed, ioState, cfgState, gitState, commit, committed_at,
                   locateLocals, watchLocals, url, exc, ops>>

\* locate has returned: _watch_travis_build(build_id), or the end of the
\* --no-wait branch.  locate's other locals are gone.
MainAfterLocate ==
    /\ entry = "main"
    /\ pc = "l_ret"
    /\ pc' = IF main_watches(argv) THEN "w_start" ELSE "m_done"
    /\ elapsed' = 0
    /\ build' = None
    /\ stale' = {}
    /\ shaped' = TRUE
    /\ UNCHANGED <<fixed, ioState, cfgState, gitState, submitLocals,
                   watchLocals, url, exc, ops, repo_id, build_id>>

\* else: sys.exit(0)
MainReturn ==
    /\ entry = "main"
    /\ pc \in {"m_done", "c_ret", "w_ret"}
    /\ exitCode' = Some(0)
    /\ pc' = "exit"
    /\ UNCHANGED <<fixed, stdin, out, cfgState, gitState, submitLocals,
                   locateLocals, watchLocals, url, exc, ops>>

\* `except RuntimeError as e`
Catches(e) == e.type = "RuntimeError"

\* except RuntimeError as e: print(...); sys.exit(1)
MainCatch ==
    /\ entry = "main"
    /\ pc = "raised"
    /\ Catches(Val(exc))
    /\ out' = Append(out, "ERROR")
    /\ exitCode' = Some(1)
    /\ pc' = "exit"
    /\ UNCHANGED <<fixed, stdin, cfgState, gitState, submitLocals,
                   locateLocals, watchLocals, url, exc, ops>>

\* Any other exception leaves main: the interpreter prints its traceback and
\* ends the process with status 1, or, after a KeyboardInterrupt, by the
\* interrupt signal (status 130).
MainUncaught ==
    /\ entry = "main"
    /\ pc = "raised"
    /\ ~Catches(Val(exc))
    /\ out' = Append(out, "Traceback")
    /\ exitCode' = IF Val(exc).type = "KeyboardInterrupt" THEN Some(130)
                   ELSE Some(1)
    /\ pc' = "exit"
    /\ UNCHANGED <<fixed, stdin, cfgState, gitState, submitLocals,
                   locateLocals, watchLocals, url, exc, ops>>

----------------------------------------------------------------------------

Next ==
    \/ InputGithubRepo
    \/ InputTravisToken
    \/ LoadGithubRepo
    \/ LoadTravisToken
    \/ SubmitOpen
    \/ SubmitDeleteOld
    \/ SubmitCreateRemote
    \/ SubmitAdd
    \/ SubmitCommit
    \/ SubmitHead
    \/ SubmitPush
    \/ SubmitRevert
    \/ SubmitDeleteRemote
    \/ LocateStart
    \/ LocateTimeout
    \/ LocateRepoInfo
    \/ LocateBuilds
    \/ LocateSleep
    \/ LocateInterrupt
    \/ WatchStart
    \/ WatchPoll
    \/ WatchSleep
    \/ WatchInterrupt
    \/ MainDispatch
    \/ MainAfterSubmit
    \/ MainAfterLocate
    \/ MainReturn
    \/ MainCatch
    \/ MainUncaught

Spec == Init /\ [][Next]_vars

----------------------------------------------------------------------------
(* Claims about the repo transport. *)

SubmitCauses == {"create_remote", "add", "commit", "no_head_commit", "push",
                 "reset"}

\* submit has just returned its pair.
SubmitReturned == pc = "s_ret"

\* submit has just raised, after having opened the repository.
SubmitRaised == pc = "raised" /\ Val(exc).cause \in SubmitCauses

SubmitEnded == SubmitReturned \/ SubmitRaised

\* C1: when submit ends, by returning or by raising, the commits reachable
\* from HEAD are those that were reachable before the call.
C1_HistoryRestored == SubmitEnded => history = pre.history

\* C2: when submit ends after having opened the repository, by returning or
\* by raising, the repository has no remote named `trytravis`.
C2_RemoteRemoved == SubmitEnded => remote = None

\* `git commit` failed because nothing was staged: the text is git's own.
FoundNothing ==
    /\ answer # None
    /\ Val(answer).raise
    /\ Val(answer).msg \in {MsgClean, MsgInitial}

\* `git commit` failed for another reason.
FailedOtherwise ==
    /\ answer # None
    /\ Val(answer).raise
    /\ Val(answer).msg \notin {MsgClean, MsgInitial}

\* What C3 says of a call in which `git commit` found nothing to commit.
NoOpCommit ==
    /\ history = pre.history
    /\ ~commited
    /\ "reset" \notin ops
    /\ "push" \in ops
    /\ SubmitReturned =>
          /\ pre.history # <<>>
          /\ commit = Some(pre.history[Len(pre.history)].sha)
          /\ committed_at = Some(pre.history[Len(pre.history)].at)

\* What C3 says of a call in which `git commit` failed for another reason.
CommitFailureRaised ==
    /\ SubmitRaised
    /\ Val(exc) = [type |-> "GitCommandError", cause |-> "commit"]
    /\ "push" \notin ops

\* C3: whenever the commit fails with 'nothing to commit', submit creates
\* no commit, resets nothing, still force-pushes and returns the SHA and
\* timestamp of the HEAD from before the call; a commit that fails for any
\* other reason is re-raised and not taken for a no-op.
C3_NothingToCommit ==
    SubmitEnded =>
        /\ FoundNothing => NoOpCommit
        /\ FailedOtherwise => CommitFailureRaised

----------------------------------------------------------------------------
(* Claims about the build locator. *)

\* C4: for every answer shaped as the API's answers are, the build whose
\* id locate returns has the requested SHA and a commit whose committed-at
\* is not before the
\* timestamp locate was given: it is none of the answer's builds that have
\* the SHA and an older commit.
C4_NoStaleBuild ==
    (pc = "l_ret" /\ shaped) =>
        /\ build_id = Some(Val(build).id)
        /\ Val(build).sha = Val(commit)
        /\ ~Before(Val(strptime(Val(Val(build).at))), Val(committed_at))
        /\ Val(build) \notin stale

\* locate has returned a build from an answer that also held a build with
\* the requested SHA and an older commit.
C4_Witness ==
    /\ entry = "locate"
    /\ pc = "l_ret"
    /\ build_id # None
    /\ shaped
    /\ stale # {}

Timeout == Err("RuntimeError", "build_timeout")

\* C5: a poll that finds no match leaves no build id and goes on to the
\* sleep, which costs at least SLEEP before the loop tests the time again
\* (short of the user's interrupt, which ends locate); a poll is made only
\* while less than 60 seconds have elapsed;
\* once 60 seconds have elapsed the only step is the timeout error, which
\* is raised at no other time; and locate returns only with a build id it
\* found.  Time that grows by at least SLEEP per poll and a loop that is
\* left at TIMEOUT bound the polls by TIMEOUT / SLEEP.
C5_TimeoutBounded ==
    [][ /\ (pc = "l_builds" /\ pc' # "l_builds")
              => /\ pc' \in {"l_sleep", "l_ret", "raised"}
                 /\ pc' = "l_sleep" => build_id' = None
        /\ (pc = "l_sleep" /\ pc' # "l_sleep")
              => \/ /\ pc' = "l_loop"
                    /\ elapsed' >= elapsed + SLEEP
                    /\ build_id' = None
                 \/ /\ pc' = "raised"
                    /\ Val(exc').type = "KeyboardInterrupt"
        /\ pc' = "l_builds" => elapsed' < TIMEOUT
        /\ (pc = "l_loop" /\ ~(elapsed < TIMEOUT))
              => (pc' = "raised" /\ exc' = Timeout)
        /\ (exc' = Timeout /\ exc # Timeout)
              => (pc = "l_loop" /\ ~(elapsed < TIMEOUT) /\ build_id = None)
        /\ (pc' = "l_ret" /\ pc # "l_ret")
              => (pc = "l_builds" /\ build_id' # None /\ build' # None)
      ]_vars

\* locate has timed out after polls that all succeeded and matched nothing.
C5_Witness ==
    /\ entry = "locate"
    /\ pc = "raised"
    /\ exc = Timeout
    /\ elapsed >= TIMEOUT
    /\ "http" \in ops

----------------------------------------------------------------------------
(* Claims about the build watcher. *)

\* The non-terminal and the terminal job states, as the specification
\* lists them.
NonTerminalStates == {None, Some("queued"), Some("created"), Some("received"),
                      Some("started"), Some("running")}
TerminalStates    == {Some("passed"), Some("failed"), Some("errored"),
                      Some("canceled")}
KnownStates       == NonTerminalStates \cup TerminalStates

\* The states of the jobs of the last poll.
SeenStates == {j.state : j \in seen}

\* C6: after a poll that ran to its end, watch goes on to another poll
\* exactly when some job of the poll was in a non-terminal state, and ends
\* exactly when every job was in a terminal state; short of the user's
\* interrupt it ends in no other way, and it polls from nowhere else, so a
\* first poll of terminal jobs is the only poll.
C6_PollsWhileRunning ==
    [][ /\ (pc = "w_loop" /\ pc' = "w_sleep")
              => /\ polls' = polls + 1
                 /\ running' <=> (SeenStates' \cap NonTerminalStates # {})
                 /\ ~running' <=> (SeenStates' \subseteq TerminalStates)
        /\ (pc = "w_sleep" /\ ~interrupted')
              => /\ (pc' = "w_loop") <=> (SeenStates \cap NonTerminalStates # {})
                 /\ (pc' = "w_ret") <=> (SeenStates \subseteq TerminalStates)
        /\ (pc' = "w_ret" /\ pc # "w_ret" /\ ~interrupted')
              => (pc = "w_sleep" /\ SeenStates \subseteq TerminalStates)
        /\ polls' # polls => (pc = "w_loop" \/ pc' = "w_loop")
        /\ (pc = "w_start") => (pc' = "w_loop" /\ polls' = 0)
      ]_vars

\* watch has ended after one poll, in which both jobs were terminal.
C6_Witness ==
    /\ pc = "w_ret"
    /\ polls = 1
    /\ ~interrupted
    /\ SeenStates = {Some("passed"), Some("canceled")}

\* C7: a poll that holds a job state outside the ten known ones never lets
\* watch go on or return: it ends watch with an error, and for jobs that
\* carry `os` in their config, as the API's jobs do, that error is the
\* unknown-state error.
C7_UnknownStateRaises ==
    (SeenStates \ KnownStates # {}) =>
        /\ pc \in {"raised", "exit"}
        /\ exc # None
        /\ (\A j \in seen : j.has_os) =>
              exc = Err("RuntimeError", "unknown_state")
        /\ pc = "exit" => exitCode = Some(1)

\* A poll with a running job and a job in an unknown state has raised.
C7_Witness ==
    /\ pc = "raised"
    /\ exc = Err("RuntimeError", "unknown_state")
    /\ Some("running") \in SeenStates
    /\ Some("PASSED") \in SeenStates

----------------------------------------------------------------------------
(* Claims about the config store. *)

\* _input_github_repo, called on its own, has returned or raised.
SaveEnded == entry = "saveRepo" /\ pc \in {"c_ret", "raised"}

\* The URL spelled by the parts has one of the two accepted shapes, once
\* the white space around it is gone.
ShapeOK(p) ==
    /\ p.scheme \in {S_https, S_ssh}
    /\ p.www = <<>> \/ p.scheme = S_https
    /\ p.host = S_github
    /\ p.name \notin BrokenNames
    /\ p.trail # <<"/">>

\* saveRepo wrote if and only if `may` allows it, and a refusal is an error
\* that leaves the stored value as it was.
SavesExactlyWhen(may) ==
    /\ pc = "c_ret" <=> may
    /\ pc = "c_ret" => cfgRepo # pre.cfgRepo /\ exc = None
    /\ pc = "raised" =>
          /\ cfgRepo = pre.cfgRepo
          /\ exc # None
          /\ Val(exc).type = "RuntimeError"

\* C8 as claimed: saveRepo writes the stored repository only for a URL of an
\* accepted shape whose name holds `trytravis` and that the user confirmed
\* with `y` or `yes`; otherwise it raises and the stored value stays.
C8_SavesOnlyConfirmed ==
    SaveEnded =>
        SavesExactlyWhen(/\ ShapeOK(Val(pre.parts))
                         /\ Val(pre.parts).name \in SafeNames
                         /\ Val(pre.accept) \in {S_y, S_yes})

\* `y` and `yes` in any mix of upper and lower case.
AnyCaseYes == {S_y, S_yes, <<"Y">>, <<"Y","e","S">>}

\* C8 amended: the same, the confirmation being `y` or `yes` in any case.
C8_SavesOnlyConfirmedAnyCase ==
    SaveEnded =>
        SavesExactlyWhen(/\ ShapeOK(Val(pre.parts))
                         /\ Val(pre.parts).name \in SafeNames
                         /\ Val(pre.accept) \in AnyCaseYes)

\* A URL whose owner, not its name, holds `trytravis` was confirmed and
\* refused, and the stored value is the old one.
C8_Witness ==
    /\ SaveEnded
    /\ pc = "raised"
    /\ Val(exc).cause = "no_safety"
    /\ Val(pre.parts).owner = S_trytravis
    /\ Val(pre.accept) = S_yes
    /\ cfgRepo = Some(U_old)

----------------------------------------------------------------------------
(* Claims about the dispatcher. *)

\* The causes of section 7's taxonomy.
Taxonomy == {"running_in_ci", "no_repo_configured", "no_token_configured",
             "bad_url", "no_safety", "aborted", "repo_not_found",
             "create_remote", "add", "commit", "push", "reset",
             "api_not_ok", "build_timeout", "unknown_state"}

Printed(what) == Cardinality({i \in 1..Len(out) : out[i] = what})

\* C9: main exits with 0 when nothing was raised, and with 1, after having
\* printed the failure once as an error message, when an error of the
\* taxonomy was raised.
C9_ExitCodes ==
    (entry = "main" /\ pc = "exit") =>
        /\ exc = None => (exitCode = Some(0) /\ Printed("ERROR") = 0)
        /\ (exc # None /\ Val(exc).cause \in Taxonomy) =>
              /\ exitCode = Some(1)
              /\ Printed("ERROR") = 1
              /\ Printed("Traceback") = 0

\* The two submitting modes.
SubmitMode ==
    entry = "main" /\ argv \in {<<>>, <<"--no-wait">>, <<"-nw">>}

NotConfigured == travisEnv \/ pre.cfgRepo = None \/ pre.cfgToken = None

LoadError ==
    Err("RuntimeError",
        IF travisEnv THEN "running_in_ci"
        ELSE IF pre.cfgRepo = None THEN "no_repo_configured"
        ELSE "no_token_configured")

\* C10: in the submitting modes nothing is done to the repository or sent
\* over the network before both stored values are loaded; with the CI
\* marker set or a value absent the run fails with the loader's error, the
\* CI marker first, having done none of it.
C10_LoadsBeforeActing ==
    SubmitMode =>
        /\ NotConfigured =>
              /\ ops = {}
              /\ <<history, worktree, remote, pushed>>
                    = <<pre.history, pre.worktree, pre.remote, None>>
              /\ pc \in {"main", "load_repo", "load_token", "raised", "exit"}
              /\ pc \in {"raised", "exit"} => exc = LoadError
              /\ pc = "exit" => exitCode = Some(1)
        /\ ops # {} => (~NotConfigured /\ url = pre.cfgRepo)
        /\ pc = "s_open" => (~NotConfigured /\ url = pre.cfgRepo)

\* --no-wait inside CI with no stored repository has failed on the marker.
C10_Witness ==
    /\ SubmitMode
    /\ argv = <<"-nw">>
    /\ travisEnv
    /\ pre.cfgRepo = None
    /\ pc = "exit"
    /\ exc = Err("RuntimeError", "running_in_ci")
    /\ ops = {}

====
